---- MODULE Spec2Model ----
(***************************************************************************)
(* State-machine model of spectroterm's main() frame loop (src/main.py):   *)
(* device lookup, recorder open, key polling / resize, capture + band      *)
(* analysis, falling bars, peak markers, row-by-row drawing, the error     *)
(* report of the except branch and the SIGINT handler.                     *)
(*                                                                         *)
(* Time is counted in ticks, TicksPerSec ticks to the second; heights are  *)
(* rows; Python's 0-based arrays are 1-based sequences here, the row       *)
(* index y keeps the code's 0-based value.                                 *)
(***************************************************************************)
EXTENDS Integers, Sequences, FiniteSets, TLC

\* ------------------------------------------------------------- bounds
MaxRows == 3
MaxCols == 2
MaxTime == 5
MaxDt == 2
TicksPerSec == 2
MaxFrames == 3

\* ------------------------------------------------- program constants
DbFloor == -90
DefaultMinDb == -90
DefaultMaxDb == 0
DefaultMinFreq == 30
DefaultMaxFreq == 16000
MsPerSec == 1000
\* 20*log10(0/max_ref + 1e-12): what an all-zero sample buffer gives a band
SilentLevel == -240

\* ------------------------------------------------- inputs of the model
\* 20*log10(magnitude/max_ref + 1e-12) of one band, before the -90 floor:
\* -240 is a silent band (magnitude 0), 0 is a band at the reference level.
Levels == {SilentLevel, -60, 0}
FallSpeeds == {1, 3}
PeakHoldsMs == {500}
\* (min_freq, max_freq) pairs: the defaults, min_freq <= 0, min_freq >= max_freq
ValidFreqs == {<<DefaultMinFreq, DefaultMaxFreq>>}
InvalidFreqs == {<<0, DefaultMaxFreq>>, <<100, 100>>}

VARIABLES
    args,              \* parsed command line (main.py 129-143)
    pc,                \* position of the process in main()
    clock,             \* time.perf_counter(), in ticks
    h, w,              \* screen.getmaxyx()
    bar_height, num_bars,   \* spectrum_win.getmaxyx()
    data,              \* the recorded buffer, as the level of each band
    volume_db,         \* log_band_volumes(data, ...) of the current frame
    raw_bar_heights,   \* target heights of the current frame
    prev_bar_heights,  \* displayed heights (bar_heights aliases it)
    prev_update_time,
    peak_heights, peak_times,
    y,                 \* row index of the drawing loop
    win,               \* cells of spectrum_win: bar_height rows of num_bars cells
    err,               \* the exception caught or propagating, "none" if none
    report,            \* screen operations done by the except branch
    exit_status,       \* <<>> while running, <<code>> once the process ended
    cause, stopped_at, \* why and where main() stopped
    key,               \* the key screen.getch() returned last
    last_bands,        \* len(prev_bar_heights) entering the latest falling-bars
                       \* update, 0 for None (history, not read by the program)
    decay              \* one band falling over a time span, once frame by
                       \* frame and once in a single frame (SpecDecay only)

vars == <<args, pc, clock, h, w, bar_height, num_bars, data, volume_db,
          raw_bar_heights,
          prev_bar_heights, prev_update_time, peak_heights, peak_times, y,
          win, err, report, exit_status, cause, stopped_at, key,
          last_bands, decay>>

\* groups of variables, for UNCHANGED
term   == <<h, w, bar_height, num_bars>>
frame  == <<data, volume_db, raw_bar_heights>>
anim   == <<prev_bar_heights, prev_update_time, peak_heights, peak_times,
           last_bands>>
ending == <<exit_status, cause, stopped_at>>
prog   == <<args, pc, clock, term, frame, anim, y, win, err, report, ending,
           key>>

\* prev_bar_heights = None. raw_bar_heights always has num_bars >= 1 entries,
\* so the empty sequence is never a real height array.
None == << >>

BAR == "bar"
PEAK == "peak"
BLANK == " "

Max(a, b) == IF a >= b THEN a ELSE b
Min(a, b) == IF a <= b THEN a ELSE b

BoolInt(b) == IF b THEN 1 ELSE 0

\* ------------------------------------------------------------ draw_ui
\* spectrum_hwyx of draw_ui and curses' derwin: a zero size means "to the
\* edge of the parent"; a negative size or an origin outside the parent is
\* curses.error. Result: <<ok, bar_height, num_bars>>.
draw_ui(hh, ww, box, axes) ==
    LET nlines == hh - BoolInt(box) - BoolInt(axes)
        ncols  == ww - 2 * BoolInt(box) - 4 * BoolInt(axes)
        begy   == BoolInt(box)
        begx   == BoolInt(box) + 4 * BoolInt(axes)
        ok     == nlines >= 0 /\ ncols >= 0 /\ begy <= hh - 1 /\ begx <= ww - 1
    IN  <<ok,
          IF nlines = 0 THEN hh - begy ELSE nlines,
          IF ncols = 0 THEN ww - begx ELSE ncols>>

\* --------------------------------------------------- log_band_volumes
\* One band of log_band_volumes. The FFT and the band RMS are the input
\* `level`; np.log10 of a non-positive min_freq makes every band edge NaN,
\* and NaN then flows through the weights into the band's dB value.
log_band_volumes(level, min_freq, max_freq) ==
    IF min_freq <= 0
    THEN [nan |-> TRUE, db |-> 0]
    ELSE [nan |-> FALSE, db |-> Max(level, DbFloor)]

\* np.round: round half to even, of num/den with den > 0
Round(num, den) ==
    LET q == num \div den
        r == num % den
    IN  IF 2 * r < den THEN q
        ELSE IF 2 * r > den THEN q + 1
        ELSE IF q % 2 = 0 THEN q ELSE q + 1

Clip(v, lo, hi) == Min(Max(v, lo), hi)

\* np.clip(np.round(np.interp(db, (min_db, max_db), (0, bar_height))), 0, bar_height)
\* for min_db < max_db; np.interp is constant outside [min_db, max_db].
TargetHeight(db, min_db, max_db, bh) ==
    IF db <= min_db THEN 0
    ELSE IF db >= max_db THEN bh
    ELSE Clip(Round((db - min_db) * bh, max_db - min_db), 0, bh)

\* The heights one band can get: astype(int) of NaN is undefined, the
\* cast gives the smallest or the largest integer (or 0), which clip to 0
\* or bar_height.
RawHeights(v, min_db, max_db, bh) ==
    IF v.nan THEN {0, bh} ELSE {TargetHeight(v.db, min_db, max_db, bh)}

\* ------------------------------------------------------- falling bars
\* int(fall_speed * dt), dt in ticks
MaxFall(fall_speed, dt) == (fall_speed * dt) \div TicksPerSec

\* Faulty variant of FallStep: no floor at the target
FallStep_BelowTarget(raw, prev, max_fall) ==
    IF raw >= prev THEN raw ELSE prev - max_fall

FallStep(raw, prev, max_fall) ==
    IF raw >= prev THEN raw ELSE Max(raw, prev - max_fall)

NeedsReset(prev, raw) == prev = None \/ Len(prev) # Len(raw)

\* Faulty variant of FallingBars: smoothing kept across a change of band count
FallingBars_Carry(prev, raw, max_fall) ==
    IF prev = None
    THEN raw
    ELSE [i \in 1..Len(raw) |->
            FallStep(raw[i], IF i <= Len(prev) THEN prev[i] ELSE 0, max_fall)]

FallingBars(prev, raw, max_fall) ==
    IF NeedsReset(prev, raw)
    THEN raw
    ELSE [i \in 1..Len(raw) |-> FallStep(raw[i], prev[i], max_fall)]

\* -------------------------------------------------------- peak marker
\* Faulty variant of HoldExpired: the hold already ends at elapsed = peak_hold
HoldExpired_AtHold(now, ptime, peak_hold_ms) ==
    (now - ptime) * MsPerSec >= peak_hold_ms * TicksPerSec

\* now - peak_times[i] > peak_hold, with peak_hold = args.peak_hold / 1000
HoldExpired(now, ptime, peak_hold_ms) ==
    (now - ptime) * MsPerSec > peak_hold_ms * TicksPerSec

\* Faulty variant of PeakStep: the peak is never raised to a higher bar
PeakStep_NoRaise(bh, peak, ptime, now, peak_hold_ms) ==
    IF HoldExpired(now, ptime, peak_hold_ms) THEN <<bh, now>>
    ELSE <<peak, ptime>>

\* One band of the peak loop: <<peak height, peak time>>
PeakStep(bh, peak, ptime, now, peak_hold_ms) ==
    IF bh > peak THEN <<bh, now>>
    ELSE IF HoldExpired(now, ptime, peak_hold_ms) THEN <<bh, now>>
    ELSE <<peak, ptime>>

PeakBase(pk, pt, bars, now) ==
    IF Len(pk) # Len(bars)
    THEN <<bars, [i \in 1..Len(bars) |-> now]>>
    ELSE <<pk, pt>>

PeakMarker(pk, pt, bars, now, peak_hold_ms) ==
    LET base == PeakBase(pk, pt, bars, now)
        step(i) == PeakStep(bars[i], base[1][i], base[2][i], now, peak_hold_ms)
    IN  <<[i \in 1..Len(bars) |-> step(i)[1]],
          [i \in 1..Len(bars) |-> step(i)[2]]>>

\* ------------------------------------------------------ draw spectrum
Cell(yy, bh, bar, peaks, peak) ==
    IF peaks /\ yy = bh - peak THEN PEAK
    ELSE IF yy >= bh - bar THEN BAR
    ELSE BLANK

Line(yy, bh, bars, peaks, pk) ==
    [x \in 1..Len(bars) |-> Cell(yy, bh, bars[x], peaks, IF peaks THEN pk[x] ELSE 0)]

\* rows written by `for y in range(bar_height-1)`
RowsToDraw(bh) == Max(bh - 1, 0)

\* The cells of the window draw_ui derives from the screen. The window
\* shares the screen's cells: a new screen is blank, and a resized screen
\* keeps the cells it had and gets blank ones where it grew.
Derwin(old, rows, cols) ==
    [r \in 1..rows |->
        [c \in 1..cols |->
            IF r <= Len(old) /\ c <= Len(old[r]) THEN old[r][c] ELSE BLANK]]

\* spectrum_win.insstr(y, 0, line): the line is as wide as the window, so
\* it replaces row y
Insstr(cells, yy, line) == [cells EXCEPT ![yy + 1] = line]

\* ---------------------------------------------------------------- Init
Args(freqs, peakses, speeds) ==
    [peaks : peakses, fall_speed : speeds, peak_hold : PeakHoldsMs,
     min_freq : {f[1] : f \in freqs}, max_freq : {f[2] : f \in freqs},
     min_db : {DefaultMinDb}, max_db : {DefaultMaxDb},
     box : {FALSE}, axes : {FALSE}]

Start ==
    /\ pc = "lookup"
    /\ clock = 0
    /\ h = 0 /\ w = 0 /\ bar_height = 0 /\ num_bars = 0
    /\ data = << >>
    /\ volume_db = << >>
    /\ raw_bar_heights = << >>
    /\ prev_bar_heights = None
    /\ prev_update_time = 0
    /\ peak_heights = << >>
    /\ peak_times = << >>
    /\ y = 0
    /\ win = << >>
    /\ err = "none"
    /\ report = << >>
    /\ exit_status = << >>
    /\ cause = "none"
    /\ stopped_at = "none"
    /\ key = "none"
    /\ last_bands = 0

\* no band under study: the value of decay in the runs of main()
NoDecay == [start |-> 0, target |-> 0, dts |-> << >>, elapsed |-> 0,
            split |-> 0, whole |-> << >>]

Init ==
    /\ args \in {a \in Args(ValidFreqs, BOOLEAN, FallSpeeds) :
                    <<a.min_freq, a.max_freq>> \in ValidFreqs}
    /\ Start
    /\ decay = NoDecay

\* ------------------------------------------------------------- actions
Sizes == (1..MaxRows) \X (1..MaxCols)

\* sc.default_speaker() / sc.get_microphone(): outside the try block
GetLoopback ==
    /\ pc = "lookup"
    /\ pc' = "open"
    /\ UNCHANGED <<decay, args, clock, term, frame, anim, y, win,
                   err, report, ending, key>>

\* the lookup raises: nothing catches it, curses.wrapper re-raises and the
\* interpreter ends with a traceback and status 1
GetLoopbackFails ==
    /\ pc = "lookup"
    /\ pc' = "exited"
    /\ err' = "lookup"
    /\ exit_status' = <<1>>
    /\ cause' = "uncaught"
    /\ stopped_at' = pc
    /\ UNCHANGED <<decay, args, clock, term, frame, anim, y, win,
                   report, key>>

\* with loopback_mic.recorder(...) as rec, then the first draw_ui
OpenRecorder ==
    /\ pc = "open"
    /\ \E s \in Sizes :
         LET ui == draw_ui(s[1], s[2], args.box, args.axes)
         IN  /\ h' = s[1] /\ w' = s[2]
             /\ IF ui[1]
                THEN /\ bar_height' = ui[2] /\ num_bars' = ui[3]
                     /\ win' = Derwin(win, ui[2], ui[3])
                     /\ pc' = "getch" /\ err' = err
                ELSE /\ UNCHANGED <<bar_height, num_bars, win>>
                     /\ pc' = "except" /\ err' = "curses"
    /\ UNCHANGED <<decay, args, clock, frame, anim, y, report, ending, key>>

\* opening the recorder raises (the device is unavailable)
OpenRecorderFails ==
    /\ pc = "open"
    /\ pc' = "except"
    /\ err' = "open"
    /\ UNCHANGED <<decay, args, clock, term, frame, anim, y, win,
                   report, ending, key>>

\* key == 113: break; the with block and main() end, the process exits 0
GetChQuit ==
    /\ pc = "getch"
    /\ key' = "q"
    /\ pc' = "exited"
    /\ exit_status' = <<0>>
    /\ cause' = "quit"
    /\ stopped_at' = pc
    /\ UNCHANGED <<decay, args, clock, term, frame, anim, y, win,
                   err, report>>

\* key == curses.KEY_RESIZE: the terminal has a new size
GetChResize ==
    /\ pc = "getch"
    /\ key' = "KEY_RESIZE"
    /\ \E s \in Sizes :
         LET ui == draw_ui(s[1], s[2], args.box, args.axes)
         IN  /\ s # <<h, w>>
             /\ h' = s[1] /\ w' = s[2]
             /\ IF ui[1]
                THEN /\ bar_height' = ui[2] /\ num_bars' = ui[3]
                     /\ win' = Derwin(win, ui[2], ui[3])
                     /\ pc' = "record" /\ err' = err
                ELSE /\ UNCHANGED <<bar_height, num_bars, win>>
                     /\ pc' = "except" /\ err' = "curses"
    /\ UNCHANGED <<decay, args, clock, frame, anim, y, report, ending>>

\* no key (-1) or any other key
GetChOther ==
    /\ pc = "getch"
    /\ key' = "none"
    /\ pc' = "record"
    /\ UNCHANGED <<decay, args, clock, term, frame, anim, y, win, err,
                   report, ending>>

\* rec.record blocks for dt ticks, then log_band_volumes and the target heights
Record ==
    /\ pc = "record"
    /\ \E dt \in 1..MaxDt :
         /\ clock + dt <= MaxTime
         /\ clock' = clock + dt
    /\ \E levels \in [1..num_bars -> Levels] :
       LET db == [i \in 1..num_bars |->
                    log_band_volumes(levels[i], args.min_freq, args.max_freq)]
       IN  \E raw \in [1..num_bars -> 0..bar_height] :
             /\ \A i \in 1..num_bars :
                  raw[i] \in RawHeights(db[i], args.min_db, args.max_db,
                                        bar_height)
             /\ data' = levels
             /\ volume_db' = db
             /\ raw_bar_heights' = raw
    /\ pc' = "animate"
    /\ UNCHANGED <<decay, args, term, anim, y, win, err, report, ending, key>>

\* rec.record raises (the stream dropped)
RecordFails ==
    /\ pc = "record"
    /\ pc' = "except"
    /\ err' = "record"
    /\ UNCHANGED <<decay, args, clock, term, frame, anim, y, win,
                   report, ending, key>>

\* falling bars and peak marker
Animate ==
    /\ pc = "animate"
    /\ LET now  == clock
           dt   == now - prev_update_time
           bars == FallingBars(prev_bar_heights, raw_bar_heights,
                               MaxFall(args.fall_speed, dt))
           pm   == PeakMarker(peak_heights, peak_times, bars, now, args.peak_hold)
       IN  /\ prev_update_time' = now
           /\ prev_bar_heights' = bars
           /\ IF args.peaks
              THEN peak_heights' = pm[1] /\ peak_times' = pm[2]
              ELSE UNCHANGED <<peak_heights, peak_times>>
    /\ last_bands' = Len(prev_bar_heights)
    /\ y' = 0
    /\ pc' = IF RowsToDraw(bar_height) > 0 THEN "draw" ELSE "getch"
    /\ UNCHANGED <<decay, args, clock, term, frame, win, err, report,
                   ending, key>>

\* one iteration of `for y in range(bar_height-1)`: insstr + refresh
DrawRow ==
    /\ pc = "draw"
    /\ win' = Insstr(win, y,
                     Line(y, bar_height, prev_bar_heights, args.peaks, peak_heights))
    /\ y' = y + 1
    /\ pc' = IF y + 1 < RowsToDraw(bar_height) THEN "draw" ELSE "getch"
    /\ UNCHANGED <<decay, args, clock, term, frame, anim, err, report,
                   ending, key>>

\* except Exception as e: screen.clear()
ErrClear ==
    /\ pc = "except"
    /\ report' = Append(report, "clear")
    /\ pc' = "except_addstr"
    /\ UNCHANGED <<decay, args, clock, term, frame, anim, y, win,
                   err, ending, key>>

\* screen.addstr(0, 0, f"Error: {e}"); screen.refresh()
ErrAddstr ==
    /\ pc = "except_addstr"
    /\ report' = Append(report, "message")
    /\ pc' = "except_sleep"
    /\ UNCHANGED <<decay, args, clock, term, frame, anim, y, win,
                   err, ending, key>>

\* time.sleep(2)
ErrSleep ==
    /\ pc = "except_sleep"
    /\ report' = Append(report, "pause")
    /\ pc' = "return"
    /\ UNCHANGED <<decay, args, clock, term, frame, anim, y, win,
                   err, ending, key>>

\* main() returns after the except branch; curses.wrapper returns and the
\* script ends: status 0
MainReturn ==
    /\ pc = "return"
    /\ pc' = "exited"
    /\ exit_status' = <<0>>
    /\ cause' = "error"
    /\ stopped_at' = pc
    /\ UNCHANGED <<decay, args, clock, term, frame, anim, y, win,
                   err, report, key>>

\* sigint_handler: sys.exit() raises SystemExit wherever main() is; it is
\* not an Exception, so the except branch lets it through: status 0
Sigint ==
    /\ pc # "exited"
    /\ pc' = "exited"
    /\ exit_status' = <<0>>
    /\ cause' = "sigint"
    /\ stopped_at' = pc
    /\ UNCHANGED <<decay, args, clock, term, frame, anim, y, win,
                   err, report, key>>

Next ==
    \/ GetLoopback
    \/ GetLoopbackFails
    \/ OpenRecorder
    \/ OpenRecorderFails
    \/ GetChQuit
    \/ GetChResize
    \/ GetChOther
    \/ Record
    \/ RecordFails
    \/ Animate
    \/ DrawRow
    \/ ErrClear
    \/ ErrAddstr
    \/ ErrSleep
    \/ MainReturn
    \/ Sigint

Spec == Init /\ [][Next]_vars

\* The same program started with any frequency range, valid or not
InitAnyFreqs ==
    /\ args \in {a \in Args(ValidFreqs \cup InvalidFreqs, {FALSE}, {3}) :
                    <<a.min_freq, a.max_freq>> \in ValidFreqs \cup InvalidFreqs}
    /\ Start
    /\ decay = NoDecay

SpecAnyFreqs == InitAnyFreqs /\ [][Next]_vars

\* ============================================================== claims
\* The animation update of the current frame is done and nothing has
\* touched the sizes or the clock since: raw_bar_heights are this frame's
\* targets, clock is this frame's `now`.
AfterUpdate == pc \in {"draw", "getch"} /\ prev_bar_heights # None

Bands == 1..Len(prev_bar_heights)

AllAt(n, t) == [i \in 1..n |-> t]

\* C1: with peaks enabled, once a frame has been animated every band's
\* stored peak height is at least its displayed bar height (first frame,
\* ordinary frames and frames after a resize alike).
C1_PeakNotBelowBar ==
    (args.peaks /\ prev_bar_heights # None) =>
        /\ Len(peak_heights) = Len(prev_bar_heights)
        /\ \A i \in Bands : peak_heights[i] >= prev_bar_heights[i]

\* C1 witness: a frame after a resize in which a peak raised in an earlier
\* frame is held strictly above its bar.
C1_Witness ==
    /\ args.peaks /\ pc = "draw" /\ key = "KEY_RESIZE"
    /\ \E i \in Bands :
         peak_heights[i] > prev_bar_heights[i] /\ peak_times[i] < clock

\* C2: in a frame with the band count of the previous frame and dt > 0, a
\* band whose target is at least its displayed height takes the target;
\* any other band falls by at most floor(fall_speed * dt) rows, does not
\* rise, and does not go below its target.
C2_AttackAndLimitedFall ==
    [][(/\ pc = "animate" /\ pc' \in {"draw", "getch"}
        /\ prev_bar_heights # None
        /\ Len(prev_bar_heights) = Len(raw_bar_heights)
        /\ clock - prev_update_time > 0)
       => \A i \in 1..Len(raw_bar_heights) :
            LET old    == prev_bar_heights[i]
                target == raw_bar_heights[i]
                new    == prev_bar_heights'[i]
                dt     == clock - prev_update_time
            IN  IF target >= old
                THEN new = target
                ELSE /\ new <= old
                     /\ (old - new) * TicksPerSec <= args.fall_speed * dt
                     /\ new >= target]_vars

\* C2 witness: a frame with an unchanged band count has left a bar above
\* its target, which only the limited fall does.
C2_Witness ==
    /\ pc = "draw" /\ last_bands = Len(raw_bar_heights)
    /\ \E i \in Bands :
         /\ raw_bar_heights[i] < prev_bar_heights[i]
         /\ prev_bar_heights[i] < bar_height

\* C3: in every frame each displayed bar height is between 0 and the plot
\* height of the window the frame is rendered in.
C3_BarWithinPlot ==
    AfterUpdate =>
        \A i \in Bands : 0 <= prev_bar_heights[i] /\ prev_bar_heights[i] <= bar_height

\* C4 as stated: after the update of a frame whose band count differs from
\* the previous frame's, the bar state has the new band count and equals
\* the frame's targets, and the peak state equals those heights with every
\* peak time equal to the frame time.
C4_ResetOnBandChange ==
    (AfterUpdate /\ last_bands # 0 /\ last_bands # Len(raw_bar_heights)) =>
        /\ Len(prev_bar_heights) = num_bars
        /\ prev_bar_heights = raw_bar_heights
        /\ peak_heights = raw_bar_heights
        /\ peak_times = AllAt(num_bars, clock)

\* C4 amended: the same, the peak state being reinitialized when peaks are
\* enabled (with peaks disabled the peak state is never written).
C4_ResetOnBandChangeWithPeaks ==
    (AfterUpdate /\ last_bands # 0 /\ last_bands # Len(raw_bar_heights)) =>
        /\ Len(prev_bar_heights) = num_bars
        /\ prev_bar_heights = raw_bar_heights
        /\ args.peaks =>
             /\ peak_heights = raw_bar_heights
             /\ peak_times = AllAt(num_bars, clock)

\* C4 witness: with peaks enabled, a frame drawn after the band count
\* changed, with a bar standing.
C4_Witness ==
    /\ pc = "draw" /\ args.peaks /\ key = "KEY_RESIZE"
    /\ last_bands # 0 /\ last_bands # Len(raw_bar_heights)
    /\ \E i \in Bands : prev_bar_heights[i] > 0

\* C5: a frame that handled a resize works on the band count and plot
\* height of the new terminal size, its targets have the plot's width, and
\* its animation update starts from reset state: the bars are the frame's
\* targets and, with peaks enabled, the peaks are those heights at zero age.
C5_ResizeResetsAnimation ==
    (AfterUpdate /\ key = "KEY_RESIZE") =>
        /\ draw_ui(h, w, args.box, args.axes) = <<TRUE, bar_height, num_bars>>
        /\ Len(raw_bar_heights) = num_bars
        /\ prev_bar_heights = raw_bar_heights
        /\ args.peaks =>
             /\ peak_heights = raw_bar_heights
             /\ peak_times = AllAt(num_bars, clock)

\* C6: when the quit key or SIGINT ends the frame loop, the loop was at the
\* frame boundary (the key poll), and the drawing loop of the last frame
\* has written all of its rows.
LoopPositions == {"getch", "record", "animate", "draw"}

C6_StopsAtFrameBoundary ==
    (pc = "exited" /\ cause \in {"quit", "sigint"} /\ stopped_at \in LoopPositions) =>
        /\ stopped_at = "getch"
        /\ y \in {0, RowsToDraw(bar_height)}

\* C7: a run ended by a fatal error has cleared the display, shown the
\* message and paused, in this order, and exits with a non-zero status.
\* Stated for the errors main() catches; the one it does not catch is C8's.
C7_FatalErrorReport ==
    (pc = "exited" /\ cause = "error") =>
        /\ report = <<"clear", "message", "pause">>
        /\ exit_status # <<0>>

\* C8: no audio-capture failure (device lookup, recorder open, record call)
\* leaves main() as an uncaught exception; each ends the run through the
\* error report.
CaptureErrors == {"lookup", "open", "record"}

C8_CaptureFailureReported ==
    (err \in CaptureErrors) =>
        /\ cause # "uncaught"
        /\ cause = "error" => "message" \in {report[i] : i \in 1..Len(report)}

\* C9: with min_freq <= 0, min_freq >= max_freq or no band at all, no frame
\* is analyzed, animated or drawn.
InvalidConfig ==
    \/ args.min_freq <= 0
    \/ args.min_freq >= args.max_freq
    \/ (pc \in {"record", "animate", "draw"} /\ num_bars <= 0)

C9_InvalidConfigNoFrame ==
    InvalidConfig =>
        /\ pc \notin {"animate", "draw"}
        /\ raw_bar_heights = << >>
        /\ prev_bar_heights = None

\* C10: when a frame has been drawn, every cell (x, yy) of the plot, yy from
\* 0 (top) to plot height - 1, shows the peak character where peaks are
\* enabled and yy = plot height - peak height, else the bar character where
\* yy >= plot height - bar height, else blank.
ClaimedCell(x, yy) ==
    IF args.peaks /\ yy = bar_height - peak_heights[x] THEN PEAK
    ELSE IF yy >= bar_height - prev_bar_heights[x] THEN BAR
    ELSE BLANK

C10_EveryCellRendered ==
    (pc = "getch" /\ prev_bar_heights # None) =>
        \A yy \in 0..(bar_height - 1) : \A x \in 1..num_bars :
            win[yy + 1][x] = ClaimedCell(x, yy)


\* ------------------------------------------------------------ silence
\* (min_db, max_db) pairs with min_db < max_db: the defaults, and a range
\* that starts below the -90 floor of log_band_volumes
DbRanges == {<<DefaultMinDb, DefaultMaxDb>>, <<-180, 0>>}

InitAnyDb ==
    /\ args \in {a \in [peaks : BOOLEAN, fall_speed : {3},
                        peak_hold : PeakHoldsMs,
                        min_freq : {DefaultMinFreq},
                        max_freq : {DefaultMaxFreq},
                        min_db : {r[1] : r \in DbRanges},
                        max_db : {r[2] : r \in DbRanges},
                        box : {FALSE}, axes : {FALSE}] :
                    <<a.min_db, a.max_db>> \in DbRanges}
    /\ Start
    /\ decay = NoDecay

SpecAnyDb == InitAnyDb /\ [][Next]_vars

\* the first frame of a run (nothing displayed before it), computed from an
\* all-zero buffer
SilentFirstFrame ==
    /\ AfterUpdate
    /\ last_bands = 0
    /\ \A i \in DOMAIN data : data[i] = SilentLevel

\* C11: for a silent buffer and any min_db < max_db, any plot size, peaks on
\* or off, every band's dB value is the floor, every target height is 0, and
\* the plot drawn for that frame from fresh state has no bar and no peak
\* character in it.
C11_SilenceDrawsNothing ==
    SilentFirstFrame =>
        /\ \A i \in DOMAIN volume_db :
             /\ ~volume_db[i].nan
             /\ volume_db[i].db = DbFloor
        /\ \A i \in DOMAIN raw_bar_heights : raw_bar_heights[i] = 0
        /\ \A r \in DOMAIN win : \A c \in DOMAIN win[r] : win[r][c] = BLANK


\* ---------------------------------------------------------- peak hold
\* An animation update with peaks enabled that keeps the band count, so
\* that the peak of each band is the one stored by the previous frame
PeakFrame ==
    /\ pc = "animate" /\ pc' \in {"draw", "getch"}
    /\ args.peaks
    /\ Len(peak_heights) = Len(prev_bar_heights')

\* time since peak_times[i] was last set, against peak_hold, both scaled to
\* integers: -1, 0 or 1 for elapsed <, = or > peak_hold
HoldAge(i) ==
    LET elapsed == (clock - peak_times[i]) * MsPerSec
        hold    == args.peak_hold * TicksPerSec
    IN  IF elapsed < hold THEN -1 ELSE IF elapsed = hold THEN 0 ELSE 1

PeakHeld(i) ==
    peak_heights'[i] = peak_heights[i] /\ peak_times'[i] = peak_times[i]

PeakSnapped(i) ==
    peak_heights'[i] = prev_bar_heights'[i] /\ peak_times'[i] = clock

\* C12 as stated: with peaks enabled, a band whose bar does not exceed its
\* stored peak keeps the peak in every frame where the time since the peak
\* was last set is below peak_hold, and takes the bar height with a fresh
\* timestamp in the frame where that time is at least peak_hold, the frame
\* where it equals peak_hold included.
C12_SnapAtHold ==
    [][PeakFrame =>
         \A i \in 1..Len(peak_heights) :
            prev_bar_heights'[i] <= peak_heights[i] =>
               /\ HoldAge(i) < 0 => PeakHeld(i)
               /\ HoldAge(i) >= 0 => PeakSnapped(i)]_vars

\* C12 amended: the peak is kept, height and timestamp, in every frame where
\* the time since it was last set is at most peak_hold, and takes the bar
\* height with a fresh timestamp in the first frame where that time is
\* greater than peak_hold.
C12_SnapAfterHold ==
    [][PeakFrame =>
         \A i \in 1..Len(peak_heights) :
            prev_bar_heights'[i] <= peak_heights[i] =>
               /\ HoldAge(i) <= 0 => PeakHeld(i)
               /\ HoldAge(i) > 0 => PeakSnapped(i)]_vars

\* A frame has just kept a peak above its bar with exactly peak_hold elapsed
\* since the peak was set.
C12_Witness ==
    /\ AfterUpdate /\ args.peaks
    /\ prev_update_time = clock
    /\ \E i \in Bands :
         /\ i <= Len(peak_heights)
         /\ peak_heights[i] > prev_bar_heights[i]
         /\ (clock - peak_times[i]) * MsPerSec = args.peak_hold * TicksPerSec


\* -------------------------------------------------------------- decay
\* One band with a constant target below its displayed height, over a time
\* span cut into 1..MaxFrames frames. decay.split is the height the frame
\* loop displays after the frames so far (lines 182-187 applied once per
\* frame, dt = now - prev_update_time); decay.whole is the height the same
\* lines give when the whole span is a single frame.
RECURSIVE FrameSplits(_)
FrameSplits(k) ==
    IF k = 0 THEN {<< >>}
    ELSE {<<dt>> \o s : dt \in 1..MaxDt, s \in FrameSplits(k - 1)}

InitDecay ==
    /\ args \in Args(ValidFreqs, {FALSE}, FallSpeeds)
    /\ Start
    /\ \E start \in 1..MaxRows, target \in 0..MaxRows, k \in 1..MaxFrames :
         /\ target < start
         /\ \E dts \in FrameSplits(k) :
              decay = [start |-> start, target |-> target, dts |-> dts,
                       elapsed |-> 0, split |-> start, whole |-> << >>]

\* the next frame of the split run
SplitFrame ==
    /\ decay.dts # << >>
    /\ LET dt == Head(decay.dts)
       IN  decay' = [decay EXCEPT
                       !.split = FallStep(decay.target, @,
                                          MaxFall(args.fall_speed, dt)),
                       !.elapsed = @ + dt,
                       !.dts = Tail(@)]
    /\ UNCHANGED prog

\* the single frame over the time the split run took
WholeFrame ==
    /\ decay.dts = << >> /\ decay.whole = << >> /\ decay.elapsed > 0
    /\ decay' = [decay EXCEPT
                   !.whole = <<FallStep(decay.target, decay.start,
                                        MaxFall(args.fall_speed, decay.elapsed))>>]
    /\ UNCHANGED prog

NextDecay == SplitFrame \/ WholeFrame

SpecDecay == InitDecay /\ [][NextDecay]_vars

\* C13: for a band whose target stays constant below its displayed height,
\* the height displayed after a total elapsed time T is the same whether T
\* is one frame or several frames whose dt sum to T, for any positive
\* fall_speed.
C13_DecayIndependentOfFrames ==
    decay.whole # << >> => decay.whole[1] = decay.split

====
